---------------------------- MODULE Spec2Model ----------------------------
(***************************************************************************)
(* Model of dashboard/routes/api.py: the three JSON loaders with their     *)
(* process-wide caches, the province schema validator, the memoized schema *)
(* report, the company-profile aggregator and the province lookup.         *)
(*                                                                         *)
(* JSON values are tagged records; the tag t is the Python type of the     *)
(* parsed value.  A dict is the sequence of its <<key, value>> pairs in    *)
(* insertion order (Python dicts iterate in insertion order).  A float is  *)
(* held in tenths (25 is 2.5), an int as itself.  Python's None is the     *)
(* JSON null, which is also the "unset" value of the caches.               *)
(*                                                                         *)
(* An issue path is the sequence of its dot-separated segments:            *)
(* "$.110000.metrics.gdp" is <<"$", "110000", "metrics", "gdp">> and       *)
(* "$.110000.fabs[0].capacity_kwpm" is                                     *)
(* <<"$", "110000", "fabs[0]", "capacity_kwpm">>.                          *)
(***************************************************************************)
EXTENDS Integers, Sequences, FiniteSets, TLC

VARIABLES
    provinces_file,              \* parsed content of data/provinces.json
    semi_file,                   \* parsed content of data/semi_companies.json
    ai_file,                     \* parsed content of data/ai_company_profiles.json
    _provinces_cache,
    _semi_companies_cache,
    _ai_company_profiles_cache,
    _schema_report_cache,
    reads,                       \* file name -> number of times it was opened
    validator_runs,              \* number of calls of _validate_provinces_schema
    requests,                    \* number of requests served
    response,                    \* the last response
    pc,                          \* thread -> position in its call
    op,                          \* thread -> the function it calls
    data,                        \* thread -> its local variable data
    ret                          \* thread -> the value its call returned

vars == <<provinces_file, semi_file, ai_file, _provinces_cache, _semi_companies_cache,
          _ai_company_profiles_cache, _schema_report_cache, reads, validator_runs,
          requests, response, pc, op, data, ret>>

files == <<provinces_file, semi_file, ai_file>>
caches == <<_provinces_cache, _semi_companies_cache, _ai_company_profiles_cache,
            _schema_report_cache>>
threads == <<pc, op, data, ret>>

-----------------------------------------------------------------------------
(* JSON values as json.load returns them *)

None == [t |-> "null"]
JBool(b) == [t |-> "bool", b |-> b]
JInt(n) == [t |-> "int", n |-> n]
JFloat(x) == [t |-> "float", x |-> x]
JStr(s) == [t |-> "str", s |-> s]
JList(l) == [t |-> "list", l |-> l]
JDict(d) == [t |-> "dict", d |-> d]

isinstance_dict(v) == v.t = "dict"
isinstance_list(v) == v.t = "list"
isinstance_str(v) == v.t = "str"
\* bool is a subclass of int
isinstance_int_float(v) == v.t \in {"int", "float", "bool"}
isinstance_bool(v) == v.t = "bool"

\* key in d, for the pair sequence d of a dict
DictHas(d, k) == \E i \in 1..Len(d) : d[i][1] = k

\* d[k], for a key of d
DictItem(d, k) == d[CHOOSE i \in 1..Len(d) : d[i][1] = k][2]

\* d.get(k, default)
DictGet(d, k, default) == IF DictHas(d, k) THEN DictItem(d, k) ELSE default

\* bool(v)
Truthy(v) ==
    CASE v.t = "null" -> FALSE
      [] v.t = "bool" -> v.b
      [] v.t = "int" -> v.n # 0
      [] v.t = "float" -> v.x # 0
      [] v.t = "str" -> v.s # ""
      [] v.t = "list" -> Len(v.l) > 0
      [] v.t = "dict" -> Len(v.d) > 0

RECURSIVE Flatten(_)
Flatten(ss) == IF Len(ss) = 0 THEN <<>> ELSE Head(ss) \o Flatten(Tail(ss))

-----------------------------------------------------------------------------
(* _validate_provinces_schema *)

\* mutant: booleans pass for numbers
IsNumberNoBoolCheck(value) == isinstance_int_float(value)

\* mutant: only ints are numbers
IsNumberIntOnly(value) == value.t = "int"

_is_number(value) == isinstance_int_float(value) /\ ~isinstance_bool(value)

Issue(level, path, message) == [level |-> level, path |-> path, message |-> message]

RequiredFields == <<"name_en", "name_cn", "region", "metrics">>

RequiredFieldIssues(base_path, province) ==
    LET missing == SelectSeq(RequiredFields, LAMBDA field : ~DictHas(province.d, field))
    IN  [i \in 1..Len(missing) |->
            Issue("error", base_path, "Missing required field '" \o missing[i] \o "'.")]

MetricIssues(base_path, metric_key, metric) ==
    LET metric_path == base_path \o <<"metrics", metric_key>>
    IN  IF ~isinstance_dict(metric)
        THEN <<Issue("error", metric_path, "Metric must be an object.")>>
        ELSE (IF ~DictHas(metric.d, "value")
              THEN <<Issue("error", metric_path, "Missing required metric field 'value'.")>>
              ELSE IF ~_is_number(DictItem(metric.d, "value"))
                   THEN <<Issue("error", metric_path \o <<"value">>,
                                "Metric value must be numeric.")>>
                   ELSE <<>>)
             \o (IF DictHas(metric.d, "label") /\ ~isinstance_str(DictItem(metric.d, "label"))
                 THEN <<Issue("warning", metric_path \o <<"label">>,
                              "Metric label should be a string.")>>
                 ELSE <<>>)
             \o (IF DictHas(metric.d, "unit") /\ ~isinstance_str(DictItem(metric.d, "unit"))
                 THEN <<Issue("warning", metric_path \o <<"unit">>,
                              "Metric unit should be a string.")>>
                 ELSE <<>>)

\* mutant: an empty metrics object is accepted
MetricsIssuesEmptyAccepted(base_path, province) ==
    LET metrics == DictGet(province.d, "metrics", JDict(<<>>))
    IN  IF ~isinstance_dict(metrics)
        THEN <<Issue("error", base_path \o <<"metrics">>, "Metrics must be a non-empty object.")>>
        ELSE Flatten([i \in 1..Len(metrics.d) |->
                         MetricIssues(base_path, metrics.d[i][1], metrics.d[i][2])])

MetricsIssues(base_path, province) ==
    LET metrics == DictGet(province.d, "metrics", JDict(<<>>))
    IN  IF ~isinstance_dict(metrics) \/ ~Truthy(metrics)
        THEN <<Issue("error", base_path \o <<"metrics">>, "Metrics must be a non-empty object.")>>
        ELSE Flatten([i \in 1..Len(metrics.d) |->
                         MetricIssues(base_path, metrics.d[i][1], metrics.d[i][2])])

\* the path segment fabs[i] of the element enumerate() numbers i
FabSegment(i) == "fabs[" \o ToString(i) \o "]"

FabIssues(base_path, i, fab) ==
    LET fab_path == base_path \o <<FabSegment(i)>>
    IN  IF ~isinstance_dict(fab)
        THEN <<Issue("error", fab_path, "Fab entry must be an object.")>>
        ELSE (IF ~DictHas(fab.d, "name")
              THEN <<Issue("warning", fab_path, "Fab is missing name.")>>
              ELSE <<>>)
             \o (IF DictHas(fab.d, "capacity_kwpm")
                    /\ ~_is_number(DictItem(fab.d, "capacity_kwpm"))
                 THEN <<Issue("warning", fab_path \o <<"capacity_kwpm">>,
                              "Fab capacity_kwpm should be numeric.")>>
                 ELSE <<>>)

\* mutant: a null fabs is reported like any other value that is no list
FabsIssuesNullRejected(base_path, province) ==
    LET fabs == DictGet(province.d, "fabs", JList(<<>>))
    IN  IF ~isinstance_list(fabs)
        THEN <<Issue("error", base_path \o <<"fabs">>, "Fabs must be an array when provided.")>>
        ELSE Flatten([i \in 1..Len(fabs.l) |-> FabIssues(base_path, i - 1, fabs.l[i])])

FabsIssues(base_path, province) ==
    LET fabs == DictGet(province.d, "fabs", JList(<<>>))
    IN  IF fabs # None /\ ~isinstance_list(fabs)
        THEN <<Issue("error", base_path \o <<"fabs">>, "Fabs must be an array when provided.")>>
        ELSE IF isinstance_list(fabs)
             THEN Flatten([i \in 1..Len(fabs.l) |-> FabIssues(base_path, i - 1, fabs.l[i])])
             ELSE <<>>

CompaniesIssues(base_path, province) ==
    LET companies == DictGet(province.d, "companies", JList(<<>>))
    IN  IF companies # None /\ ~isinstance_list(companies)
        THEN <<Issue("error", base_path \o <<"companies">>,
                     "Companies must be an array when provided.")>>
        ELSE <<>>

\* mutant: no continue after the error of an entry that is no object; the field
\* checks go on as on an empty object
ProvinceIssuesNoContinue(adcode, province) ==
    LET base_path == <<"$", adcode>>
        checked == IF isinstance_dict(province) THEN province ELSE JDict(<<>>)
    IN  (IF ~isinstance_dict(province)
         THEN <<Issue("error", base_path, "Province entry must be an object.")>>
         ELSE <<>>)
        \o RequiredFieldIssues(base_path, checked)
        \o MetricsIssues(base_path, checked)
        \o FabsIssues(base_path, checked)
        \o CompaniesIssues(base_path, checked)

\* one turn of the loop over provinces.items()
ProvinceIssues(adcode, province) ==
    LET base_path == <<"$", adcode>>
    IN  IF ~isinstance_dict(province)
        THEN <<Issue("error", base_path, "Province entry must be an object.")>>
        ELSE RequiredFieldIssues(base_path, province)
             \o MetricsIssues(base_path, province)
             \o FabsIssues(base_path, province)
             \o CompaniesIssues(base_path, province)

CountLevel(issues, level) == Cardinality({i \in 1..Len(issues) : issues[i].level = level})

\* mutant: ok is "no issue at all" instead of "no error"
ValidateOkMeansNoIssue(provinces) ==
    IF ~isinstance_dict(provinces)
    THEN [ok |-> FALSE,
          summary |-> [provinces |-> 0, errors |-> 1, warnings |-> 0],
          issues |-> <<Issue("error", <<"$">>,
                             "Top-level payload must be an object keyed by adcode.")>>]
    ELSE LET issues == Flatten([i \in 1..Len(provinces.d) |->
                                   ProvinceIssues(provinces.d[i][1], provinces.d[i][2])])
             errors == CountLevel(issues, "error")
             warnings == CountLevel(issues, "warning")
         IN  [ok |-> issues = <<>>,
              summary |-> [provinces |-> Len(provinces.d), errors |-> errors,
                           warnings |-> warnings],
              issues |-> issues]

_validate_provinces_schema(provinces) ==
    IF ~isinstance_dict(provinces)
    THEN [ok |-> FALSE,
          summary |-> [provinces |-> 0, errors |-> 1, warnings |-> 0],
          issues |-> <<Issue("error", <<"$">>,
                             "Top-level payload must be an object keyed by adcode.")>>]
    ELSE LET issues == Flatten([i \in 1..Len(provinces.d) |->
                                   ProvinceIssues(provinces.d[i][1], provinces.d[i][2])])
             errors == CountLevel(issues, "error")
             warnings == CountLevel(issues, "warning")
         IN  [ok |-> errors = 0,
              summary |-> [provinces |-> Len(provinces.d), errors |-> errors,
                           warnings |-> warnings],
              issues |-> issues]

-----------------------------------------------------------------------------
(* Bounds *)

MaxProvinces == 2
MaxMetrics == 2
MaxFabs == 2
MaxCompanies == 2
MaxRequests == 3
NumThreads == 2

-----------------------------------------------------------------------------
(* The loaders and the report cache, as one request runs them *)

FileNames == {"provinces", "semi_companies", "ai_company_profiles"}

\* data if isinstance(data, list) else []
NormalizeSemi(d) == IF isinstance_list(d) THEN d ELSE JList(<<>>)

\* data.get("companies", []) if isinstance(data, dict) else [], then
\* companies if isinstance(companies, list) else []
NormalizeAi(d) ==
    LET companies == IF isinstance_dict(d) THEN DictGet(d.d, "companies", JList(<<>>))
                     ELSE JList(<<>>)
    IN  IF isinstance_list(companies) THEN companies ELSE JList(<<>>)

\* The value _load_provinces returns, which is _provinces_cache after the call.
_load_provinces == IF _provinces_cache = None THEN provinces_file ELSE _provinces_cache

_load_semi_companies ==
    IF _semi_companies_cache = None THEN NormalizeSemi(semi_file) ELSE _semi_companies_cache

_load_ai_company_profiles ==
    IF _ai_company_profiles_cache = None THEN NormalizeAi(ai_file)
    ELSE _ai_company_profiles_cache

\* The value _get_schema_report returns, which is _schema_report_cache after the call.
_get_schema_report ==
    IF _schema_report_cache = None THEN _validate_provinces_schema(_load_provinces)
    ELSE _schema_report_cache

\* The files a call opens: a loader opens its file when its cache is None.
Opened(c) == IF c = None THEN 1 ELSE 0

JSONResponse(route, arg, content, status_code) ==
    [route |-> route, arg |-> arg, status |-> status_code, body |-> content]

\* An exception that leaves the handler: the framework answers 500.
ServerError(route, arg, exception) ==
    [route |-> route, arg |-> arg, status |-> 500, body |-> exception]

NoResponse == [route |-> "", arg |-> "", status |-> 0, body |-> None]

get_provinces ==
    /\ requests < MaxRequests
    /\ requests' = requests + 1
    /\ _provinces_cache' = _load_provinces
    /\ reads' = [reads EXCEPT !["provinces"] = @ + Opened(_provinces_cache)]
    /\ response' = JSONResponse("/provinces", "", _load_provinces, 200)
    /\ UNCHANGED <<files, _semi_companies_cache, _ai_company_profiles_cache,
                   _schema_report_cache, validator_runs, threads>>

get_schema_report ==
    /\ requests < MaxRequests
    /\ requests' = requests + 1
    /\ _schema_report_cache' = _get_schema_report
    /\ IF _schema_report_cache = None
       THEN /\ _provinces_cache' = _load_provinces
            /\ reads' = [reads EXCEPT !["provinces"] = @ + Opened(_provinces_cache)]
            /\ validator_runs' = validator_runs + 1
       ELSE UNCHANGED <<_provinces_cache, reads, validator_runs>>
    /\ response' = JSONResponse("/schema-report", "", _get_schema_report, 200)
    /\ UNCHANGED <<files, _semi_companies_cache, _ai_company_profiles_cache, threads>>

-----------------------------------------------------------------------------
(* get_company_profiles *)

\* float(s) of a string: the strings of the model that parse, in tenths
FloatOfStr(s) ==
    CASE s = "2.5" -> [ok |-> TRUE, x |-> 25]
      [] s = "1" -> [ok |-> TRUE, x |-> 10]
      [] OTHER -> [ok |-> FALSE, x |-> 0]

\* float(v), in tenths; ok is FALSE where float raises ValueError or TypeError
float(v) ==
    CASE v.t = "int" -> [ok |-> TRUE, x |-> 10 * v.n]
      [] v.t = "float" -> [ok |-> TRUE, x |-> v.x]
      [] v.t = "bool" -> [ok |-> TRUE, x |-> IF v.b THEN 10 ELSE 0]
      [] v.t = "str" -> FloatOfStr(v.s)
      [] OTHER -> [ok |-> FALSE, x |-> 0]

\* float(c.get("revenue_b_cny") or 0)
Revenue(c) ==
    LET v == DictGet(c.d, "revenue_b_cny", None)
    IN  float(IF Truthy(v) THEN v ELSE JInt(0))

\* sum(float(c.get("revenue_b_cny") or 0) for c in companies if isinstance(c, dict))
RECURSIVE _sum_revenue(_)
_sum_revenue(companies) ==
    IF Len(companies) = 0 THEN [ok |-> TRUE, x |-> 0]
    ELSE LET c == Head(companies)
             first == IF isinstance_dict(c) THEN Revenue(c) ELSE [ok |-> TRUE, x |-> 0]
             rest == _sum_revenue(Tail(companies))
         IN  [ok |-> first.ok /\ rest.ok, x |-> first.x + rest.x]

\* mutant: the AI revenue is summed over the semiconductor companies
SummaryAiFromSemi(semi_companies, ai_companies) ==
    [semi_count |-> Len(semi_companies.l),
     ai_count |-> Len(ai_companies.l),
     total_count |-> Len(semi_companies.l) + Len(ai_companies.l),
     semi_revenue_b_cny |-> _sum_revenue(semi_companies.l).x,
     ai_revenue_b_cny |-> _sum_revenue(semi_companies.l).x,
     total_revenue_b_cny |-> _sum_revenue(semi_companies.l).x + _sum_revenue(ai_companies.l).x]

Summary(semi_companies, ai_companies) ==
    [semi_count |-> Len(semi_companies.l),
     ai_count |-> Len(ai_companies.l),
     total_count |-> Len(semi_companies.l) + Len(ai_companies.l),
     semi_revenue_b_cny |-> _sum_revenue(semi_companies.l).x,
     ai_revenue_b_cny |-> _sum_revenue(ai_companies.l).x,
     total_revenue_b_cny |-> _sum_revenue(semi_companies.l).x + _sum_revenue(ai_companies.l).x]

get_company_profiles ==
    /\ requests < MaxRequests
    /\ requests' = requests + 1
    /\ _semi_companies_cache' = _load_semi_companies
    /\ _ai_company_profiles_cache' = _load_ai_company_profiles
    /\ reads' = [reads EXCEPT !["semi_companies"] = @ + Opened(_semi_companies_cache),
                              !["ai_company_profiles"] = @ + Opened(_ai_company_profiles_cache)]
    /\ response' =
          IF _sum_revenue(_load_semi_companies.l).ok /\ _sum_revenue(_load_ai_company_profiles.l).ok
          THEN JSONResponse("/company-profiles", "",
                            [semi_companies |-> _load_semi_companies,
                             ai_companies |-> _load_ai_company_profiles,
                             summary |-> Summary(_load_semi_companies, _load_ai_company_profiles)],
                            200)
          ELSE ServerError("/company-profiles", "", "ValueError")
    /\ UNCHANGED <<files, _provinces_cache, _schema_report_cache, validator_runs, threads>>

-----------------------------------------------------------------------------
(* get_province *)

NotFound == [error |-> "Province not found"]

\* mutant: "if data is None" in place of "if not data"
get_province_response_none_only(adcode, provinces) ==
    IF ~isinstance_dict(provinces)
    THEN ServerError("/province/{adcode}", adcode, "AttributeError")
    ELSE LET d == DictGet(provinces.d, adcode, None)
         IN  IF d = None
             THEN JSONResponse("/province/{adcode}", adcode, NotFound, 404)
             ELSE JSONResponse("/province/{adcode}", adcode,
                               [template |-> "partials/province_panel.html",
                                province |-> d, adcode |-> adcode], 200)

get_province_response(adcode, provinces) ==
    IF ~isinstance_dict(provinces)
    THEN ServerError("/province/{adcode}", adcode, "AttributeError")
    ELSE LET d == DictGet(provinces.d, adcode, None)
         IN  IF ~Truthy(d)
             THEN JSONResponse("/province/{adcode}", adcode, NotFound, 404)
             ELSE JSONResponse("/province/{adcode}", adcode,
                               [template |-> "partials/province_panel.html",
                                province |-> d, adcode |-> adcode], 200)

get_province(adcode) ==
    /\ requests < MaxRequests
    /\ requests' = requests + 1
    /\ _provinces_cache' = _load_provinces
    /\ reads' = [reads EXCEPT !["provinces"] = @ + Opened(_provinces_cache)]
    /\ response' = get_province_response(adcode, _load_provinces)
    /\ UNCHANGED <<files, _semi_companies_cache, _ai_company_profiles_cache,
                   _schema_report_cache, validator_runs, threads>>

-----------------------------------------------------------------------------
(* The files the specifications start from *)

SeqsUpTo(S, n) == UNION {[1..k -> S] : k \in 0..n}

Adcodes == <<"110000", "330000", "440000", "510000">>
MetricKeys == <<"gdp", "fab_count", "ic_output", "rd_spend">>

Names ==
    << <<"name_en", JStr("Zhejiang")>>, <<"name_cn", JStr("Zhejiang Sheng")>>,
       <<"region", JStr("East")>> >>

NameOptions == {Names, <<Names[1], Names[3]>>, <<>>}

GoodMetric == JDict(<< <<"value", JFloat(77)>>, <<"unit", JStr("trillion")>> >>)

MetricPool ==
    { JStr("7.7"),
      JDict(<< <<"label", JStr("GDP")>> >>),
      GoodMetric,
      JDict(<< <<"value", JBool(TRUE)>>, <<"label", JStr("Has fabs")>> >>),
      JDict(<< <<"value", JStr("7.7")>>, <<"label", JInt(1)>>, <<"unit", None>> >>),
      JDict(<< <<"value", JInt(12)>>, <<"label", JList(<<>>)>> >>) }

MetricsDict(ms) == JDict([i \in 1..Len(ms) |-> <<MetricKeys[i], ms[i]>>])

MetricsValues ==
    {JStr("none"), JList(<<>>)} \cup {MetricsDict(ms) : ms \in SeqsUpTo(MetricPool, MaxMetrics)}

Field(name, values) == {<<>>} \cup {<< <<name, v>> >> : v \in values}

GoodFab == JDict(<< <<"name", JStr("SMIC Fab 1")>>, <<"capacity_kwpm", JInt(100)>> >>)

FabPool ==
    { JStr("SMIC Fab 1"),
      JDict(<<>>),
      GoodFab,
      JDict(<< <<"name", JStr("YMTC")>>, <<"capacity_kwpm", JBool(TRUE)>> >>) }

FabsValues == {None, JStr("none"), JDict(<<>>)} \cup {JList(l) : l \in SeqsUpTo(FabPool, MaxFabs)}

CompaniesValues == {None, JDict(<<>>), JList(<<>>), JList(<<JStr("SMIC")>>)}

GoodMetrics == << <<"metrics", MetricsDict(<<GoodMetric>>)>> >>
EmptyMetrics == << <<"metrics", JDict(<<>>)>> >>

Zhejiang == JDict(Names \o GoodMetrics)

\* Entries whose names and metrics vary, entries whose fabs and companies vary,
\* and entries that are no object.
FocusProvinces ==
    {JDict(n \o m) : n \in NameOptions, m \in Field("metrics", MetricsValues)}
    \cup {JDict(Names \o m \o f \o c) : m \in {GoodMetrics, EmptyMetrics},
                                         f \in Field("fabs", FabsValues),
                                         c \in Field("companies", CompaniesValues)}
    \cup {JStr("bad"), None, JList(<<>>)}

OtherProvinces == {JStr("bad"), Zhejiang}

\* The mapping of k entries that holds entry e at place p and the entries o around it.
DatasetAround(e, k, p, o) ==
    JDict([i \in 1..k |-> <<Adcodes[i], IF i = p THEN e ELSE o[i]>>])

NoProvinceDatasets == {JDict(<<>>), None, JList(<<Zhejiang>>), JStr("provinces")}

SemiCompanyPool ==
    { JStr("SMIC"),
      JDict(<< <<"name", JStr("SMIC")>> >>),
      JDict(<< <<"name", JStr("Naura")>>, <<"revenue_b_cny", JFloat(25)>> >>),
      JDict(<< <<"revenue_b_cny", JInt(2)>> >>),
      JDict(<< <<"revenue_b_cny", JFloat(0)>> >>),
      JDict(<< <<"revenue_b_cny", JStr("n/a")>> >>) }

AiCompanyPool ==
    { JInt(7),
      JDict(<< <<"name", JStr("Cambricon")>>, <<"revenue_b_cny", JFloat(15)>> >>),
      JDict(<< <<"revenue_b_cny", None>> >>) }

SemiFiles ==
    {None, JDict(<< <<"companies", JList(<<>>)>> >>)}
    \cup {JList(l) : l \in SeqsUpTo(SemiCompanyPool, MaxCompanies)}

AiFiles ==
    {None, JList(<<JDict(<< <<"revenue_b_cny", JFloat(15)>> >>)>>), JDict(<<>>),
     JDict(<< <<"companies", JStr("none")>> >>)}
    \cup {JDict(<< <<"companies", JList(l)>> >>) : l \in SeqsUpTo(AiCompanyPool, MaxCompanies)}

\* The province files of the request specification: entries that are falsy, an
\* entry that is no object, and files that are no mapping.
Beijing == JDict(<< <<"name_en", JStr("Beijing")>> >> \o GoodMetrics)

ServedProvinceFiles ==
    { JDict(<< <<"110000", Beijing>>, <<"330000", JDict(<<>>)>>, <<"440000", None>> >>),
      JDict(<< <<"110000", JStr("bad")>>, <<"330000", JInt(0)>>, <<"440000", Zhejiang>> >>),
      JDict(<<>>),
      None,
      JList(<<Zhejiang>>) }

ServedSemiFiles ==
    { JList(<<JDict(<< <<"revenue_b_cny", JFloat(25)>> >>)>>), JList(<<>>), JDict(<<>>) }

ServedAiFiles ==
    { JDict(<< <<"companies", JList(<<JDict(<< <<"revenue_b_cny", JFloat(15)>> >>)>>)>> >>),
      JDict(<< <<"companies", None>> >>),
      JList(<<>>) }

Queries == {"110000", "330000", "440000", "999999"}

Threads == 1..NumThreads

-----------------------------------------------------------------------------
(* Specifications *)

Started ==
    /\ _provinces_cache = None
    /\ _semi_companies_cache = None
    /\ _ai_company_profiles_cache = None
    /\ _schema_report_cache = None
    /\ reads = [f \in FileNames |-> 0]
    /\ validator_runs = 0
    /\ requests = 0
    /\ response = NoResponse
    /\ pc = [t \in Threads |-> "idle"]
    /\ op = [t \in Threads |-> ""]
    /\ data = [t \in Threads |-> None]
    /\ ret = [t \in Threads |-> None]

\* Requests served one at a time (the handlers are coroutines that never await).
Init ==
    /\ provinces_file \in ServedProvinceFiles
    /\ semi_file \in ServedSemiFiles
    /\ ai_file \in ServedAiFiles
    /\ Started

Next ==
    \/ get_provinces
    \/ get_schema_report
    \/ get_company_profiles
    \/ \E adcode \in Queries : get_province(adcode)

Spec == Init /\ [][Next]_vars

\* The validator on a file that is no mapping or empty, and on the mappings of up to
\* MaxProvinces entries that hold one entry of FocusProvinces among OtherProvinces.
InitValidate ==
    /\ \/ provinces_file \in NoProvinceDatasets
       \/ \E k \in 1..MaxProvinces : \E p \in 1..k, e \in FocusProvinces,
                                        o \in [1..k -> OtherProvinces] :
             provinces_file = DatasetAround(e, k, p, o)
    /\ semi_file = JList(<<>>)
    /\ ai_file = JDict(<<>>)
    /\ Started

NextValidate == get_schema_report

SpecValidate == InitValidate /\ [][NextValidate]_vars

\* The aggregator on every pair of company files of SemiFiles and AiFiles.
InitAggregate ==
    /\ provinces_file = JDict(<<>>)
    /\ semi_file \in SemiFiles
    /\ ai_file \in AiFiles
    /\ Started

NextAggregate == get_company_profiles

SpecAggregate == InitAggregate /\ [][NextAggregate]_vars

-----------------------------------------------------------------------------
(* First calls made at the same time: each thread makes one call of a loader *)
(* or of _get_schema_report, a step at a time.                               *)

Loaders == {"_load_provinces", "_load_semi_companies", "_load_ai_company_profiles"}
Functions == Loaders \cup {"_get_schema_report"}

\* the loader a thread is in: _get_schema_report calls _load_provinces
LoaderOf(t) == IF op[t] = "_get_schema_report" THEN "_load_provinces" ELSE op[t]

FileOf(f) ==
    CASE f = "_load_provinces" -> provinces_file
      [] f = "_load_semi_companies" -> semi_file
      [] f = "_load_ai_company_profiles" -> ai_file

FileNameOf(f) ==
    CASE f = "_load_provinces" -> "provinces"
      [] f = "_load_semi_companies" -> "semi_companies"
      [] f = "_load_ai_company_profiles" -> "ai_company_profiles"

CacheOf(f) ==
    CASE f = "_load_provinces" -> _provinces_cache
      [] f = "_load_semi_companies" -> _semi_companies_cache
      [] f = "_load_ai_company_profiles" -> _ai_company_profiles_cache
      [] f = "_get_schema_report" -> _schema_report_cache

\* mutant: the parsed data is stored as it is
StoredRaw(f, d) == d

\* the value a loader stores in its cache, from the data it parsed
StoredBy(f, d) ==
    CASE f = "_load_provinces" -> d
      [] f = "_load_semi_companies" -> NormalizeSemi(d)
      [] f = "_load_ai_company_profiles" -> NormalizeAi(d)

Call(t, f) ==
    /\ pc[t] = "idle"
    /\ op' = [op EXCEPT ![t] = f]
    /\ pc' = [pc EXCEPT ![t] = IF f = "_get_schema_report" THEN "report_check" ELSE "check"]
    /\ UNCHANGED <<files, caches, reads, validator_runs, requests, response, data, ret>>

\* if _schema_report_cache is None:
ReportCheck(t) ==
    /\ pc[t] = "report_check"
    /\ pc' = [pc EXCEPT ![t] = IF _schema_report_cache = None THEN "check" ELSE "report_return"]
    /\ UNCHANGED <<files, caches, reads, validator_runs, requests, response, op, data, ret>>

\* if <cache> is None:
Check(t) ==
    /\ pc[t] = "check"
    /\ pc' = [pc EXCEPT ![t] = IF CacheOf(LoaderOf(t)) = None THEN "read" ELSE "return"]
    /\ UNCHANGED <<files, caches, reads, validator_runs, requests, response, op, data, ret>>

\* with open(...) as f: json.load(f)
Read(t) ==
    /\ pc[t] = "read"
    /\ data' = [data EXCEPT ![t] = FileOf(LoaderOf(t))]
    /\ reads' = [reads EXCEPT ![FileNameOf(LoaderOf(t))] = @ + 1]
    /\ pc' = [pc EXCEPT ![t] = "store"]
    /\ UNCHANGED <<files, caches, validator_runs, requests, response, op, ret>>

\* <cache> = ...
Store(t) ==
    /\ pc[t] = "store"
    /\ LET f == LoaderOf(t)
       IN  /\ _provinces_cache' =
                 IF f = "_load_provinces" THEN StoredBy(f, data[t]) ELSE _provinces_cache
           /\ _semi_companies_cache' =
                 IF f = "_load_semi_companies" THEN StoredBy(f, data[t])
                 ELSE _semi_companies_cache
           /\ _ai_company_profiles_cache' =
                 IF f = "_load_ai_company_profiles" THEN StoredBy(f, data[t])
                 ELSE _ai_company_profiles_cache
    /\ pc' = [pc EXCEPT ![t] = "return"]
    /\ UNCHANGED <<files, _schema_report_cache, reads, validator_runs, requests, response,
                   op, data, ret>>

\* return <cache>: to the caller of the loader, which is _get_schema_report or the request
Return(t) ==
    /\ pc[t] = "return"
    /\ IF op[t] = "_get_schema_report"
       THEN /\ data' = [data EXCEPT ![t] = _provinces_cache]
            /\ pc' = [pc EXCEPT ![t] = "validate"]
            /\ ret' = ret
       ELSE /\ ret' = [ret EXCEPT ![t] = CacheOf(op[t])]
            /\ pc' = [pc EXCEPT ![t] = "done"]
            /\ data' = data
    /\ UNCHANGED <<files, caches, reads, validator_runs, requests, response, op>>

\* _schema_report_cache = _validate_provinces_schema(<the provinces returned>)
Validate(t) ==
    /\ pc[t] = "validate"
    /\ _schema_report_cache' = _validate_provinces_schema(data[t])
    /\ validator_runs' = validator_runs + 1
    /\ pc' = [pc EXCEPT ![t] = "report_return"]
    /\ UNCHANGED <<files, _provinces_cache, _semi_companies_cache, _ai_company_profiles_cache,
                   reads, requests, response, op, data, ret>>

\* return _schema_report_cache
ReportReturn(t) ==
    /\ pc[t] = "report_return"
    /\ ret' = [ret EXCEPT ![t] = _schema_report_cache]
    /\ pc' = [pc EXCEPT ![t] = "done"]
    /\ UNCHANGED <<files, caches, reads, validator_runs, requests, response, op, data>>

ConcurrentFiles ==
    { <<JDict(<< <<"330000", Zhejiang>>, <<"110000", JStr("bad")>> >>),
        JList(<<JDict(<< <<"revenue_b_cny", JFloat(25)>> >>)>>),
        JDict(<< <<"companies", JList(<<JDict(<< <<"revenue_b_cny", JFloat(15)>> >>)>>)>> >>)>>,
      <<None, JDict(<< <<"companies", JList(<<>>)>> >>), JList(<<JStr("Cambricon")>>)>>,
      <<JList(<<Zhejiang>>), JList(<<>>), JDict(<< <<"companies", JStr("none")>> >>)>> }

InitConcurrent ==
    /\ \E fs \in ConcurrentFiles :
          /\ provinces_file = fs[1]
          /\ semi_file = fs[2]
          /\ ai_file = fs[3]
    /\ Started

NextConcurrent ==
    \E t \in Threads :
        \/ \E f \in Functions : Call(t, f)
        \/ ReportCheck(t)
        \/ Check(t)
        \/ Read(t)
        \/ Store(t)
        \/ Return(t)
        \/ Validate(t)
        \/ ReportReturn(t)

SpecConcurrent == InitConcurrent /\ [][NextConcurrent]_vars

-----------------------------------------------------------------------------
(* What the claims speak of, in a state where the schema report was computed *)

Report == _schema_report_cache
Validated == _schema_report_cache # None
Provinces == provinces_file.d
Entries == IF isinstance_dict(provinces_file) THEN 1..Len(provinces_file.d) ELSE {}
AdcodeOf(i) == Provinces[i][1]
EntryOf(i) == Provinces[i][2]
ObjectEntries == {i \in Entries : EntryOf(i).t = "dict"}

IsPrefix(p, q) == Len(p) <= Len(q) /\ SubSeq(q, 1, Len(p)) = p

\* The places in the report's issues of the issues at a path, and at or below it.
IssuesAt(path) == {k \in 1..Len(Report.issues) : Report.issues[k].path = path}
IssuesUnder(path) == {k \in 1..Len(Report.issues) : IsPrefix(path, Report.issues[k].path)}
ErrorsAt(path) == {k \in IssuesAt(path) : Report.issues[k].level = "error"}
ErrorsUnder(path) == {k \in IssuesUnder(path) : Report.issues[k].level = "error"}

Has(e, field) == \E j \in 1..Len(e.d) : e.d[j][1] = field
ValueOf(e, field) == e.d[CHOOSE j \in 1..Len(e.d) : e.d[j][1] = field][2]
Numeric(v) == v.t \in {"int", "float"}

\* metrics is present, an object and not empty
HasMetrics(e) ==
    /\ Has(e, "metrics")
    /\ ValueOf(e, "metrics").t = "dict"
    /\ Len(ValueOf(e, "metrics").d) > 0

MetricsOf(e) == ValueOf(e, "metrics").d

\* required fields, and non-empty metrics whose every metric is an object with a
\* numeric value
WellFormed(e) ==
    /\ e.t = "dict"
    /\ \A f \in {"name_en", "name_cn", "region", "metrics"} : Has(e, f)
    /\ HasMetrics(e)
    /\ \A j \in 1..Len(MetricsOf(e)) :
          LET m == MetricsOf(e)[j][2]
          IN  m.t = "dict" /\ Has(m, "value") /\ Numeric(ValueOf(m, "value"))

\* the optional parts are of the expected types too
OptionalsWellTyped(e) ==
    /\ \A j \in 1..Len(MetricsOf(e)) :
          LET m == MetricsOf(e)[j][2]
          IN  \A f \in {"label", "unit"} : Has(m, f) => ValueOf(m, f).t = "str"
    /\ Has(e, "fabs") =>
          \/ ValueOf(e, "fabs") = None
          \/ /\ ValueOf(e, "fabs").t = "list"
             /\ \A j \in 1..Len(ValueOf(e, "fabs").l) :
                   LET fab == ValueOf(e, "fabs").l[j]
                   IN  /\ fab.t = "dict"
                       /\ Has(fab, "name")
                       /\ Has(fab, "capacity_kwpm") => Numeric(ValueOf(fab, "capacity_kwpm"))
    /\ Has(e, "companies") =>
          ValueOf(e, "companies") = None \/ ValueOf(e, "companies").t = "list"

NoIssues ==
    /\ Report.ok
    /\ Report.issues = <<>>
    /\ Report.summary.errors = 0
    /\ Report.summary.warnings = 0

(* C1, as stated: a dataset whose every entry has the required fields and     *)
(* non-empty metrics of objects with numeric values validates with ok = true  *)
(* and no issue, whatever label, unit, fabs and companies hold.               *)
C1_AnyOptionalFields ==
    (Validated /\ isinstance_dict(provinces_file) /\ \A i \in Entries : WellFormed(EntryOf(i)))
        => NoIssues

(* C1, amended: such a dataset validates with ok = true and no issue when,    *)
(* besides, every label and unit present is a string, fabs is absent, null or *)
(* a sequence of objects that have a name and no non-numeric capacity_kwpm,   *)
(* and companies is absent, null or a sequence.                               *)
C1_WellFormedHasNoIssues ==
    (/\ Validated
     /\ isinstance_dict(provinces_file)
     /\ \A i \in Entries : WellFormed(EntryOf(i)) /\ OptionalsWellTyped(EntryOf(i)))
        => NoIssues

C1_Witness ==
    /\ Validated
    /\ isinstance_dict(provinces_file)
    /\ Len(Provinces) = 2
    /\ \A i \in Entries : WellFormed(EntryOf(i)) /\ OptionalsWellTyped(EntryOf(i))
    /\ \E i \in Entries :
          /\ Has(EntryOf(i), "fabs")
          /\ ValueOf(EntryOf(i), "fabs").t = "list"
          /\ Len(ValueOf(EntryOf(i), "fabs").l) > 0
    /\ NoIssues

RECURSIVE CountIssues(_, _)
CountIssues(issues, level) ==
    IF issues = <<>> THEN 0
    ELSE (IF Head(issues).level = level THEN 1 ELSE 0) + CountIssues(Tail(issues), level)

(* C2: in every report summary.errors is the number of issues of level error, *)
(* summary.warnings the number of issues of level warning, every issue is an  *)
(* error or a warning, and ok holds exactly when summary.errors = 0.          *)
C2_SummaryCountsIssues ==
    Validated =>
        /\ Report.summary.errors = CountIssues(Report.issues, "error")
        /\ Report.summary.warnings = CountIssues(Report.issues, "warning")
        /\ \A k \in 1..Len(Report.issues) : Report.issues[k].level \in {"error", "warning"}
        /\ Report.ok <=> (Report.summary.errors = 0)

C2_Witness ==
    /\ Validated
    /\ Report.summary.errors = 0
    /\ Report.summary.warnings > 0
    /\ Report.ok

\* the dataset without its i-th entry
Without(i) == JDict(SubSeq(Provinces, 1, i - 1) \o SubSeq(Provinces, i + 1, Len(Provinces)))

(* C3: an entry that is no object gets exactly one issue, an error at         *)
(* $.<adcode>, and nothing below; the issues of the other entries are those   *)
(* of the dataset without it; summary.provinces counts every entry.           *)
C3_MalformedEntryContained ==
    (Validated /\ isinstance_dict(provinces_file)) =>
        /\ Report.summary.provinces = Len(Provinces)
        /\ \A i \in Entries \ ObjectEntries :
              /\ Cardinality(IssuesUnder(<<"$", AdcodeOf(i)>>)) = 1
              /\ Cardinality(ErrorsAt(<<"$", AdcodeOf(i)>>)) = 1
              /\ SelectSeq(Report.issues, LAMBDA x : ~IsPrefix(<<"$", AdcodeOf(i)>>, x.path))
                    = _validate_provinces_schema(Without(i)).issues
              /\ \A j \in Entries :
                    (WellFormed(EntryOf(j)) /\ OptionalsWellTyped(EntryOf(j)))
                        => IssuesUnder(<<"$", AdcodeOf(j)>>) = {}

C3_Witness ==
    /\ Validated
    /\ isinstance_dict(provinces_file)
    /\ \E i \in Entries \ ObjectEntries : \E j \in Entries :
          /\ EntryOf(i) = JStr("bad")
          /\ EntryOf(j) = Zhejiang
          /\ IssuesUnder(<<"$", AdcodeOf(j)>>) = {}
          /\ Cardinality(IssuesUnder(<<"$", AdcodeOf(i)>>)) = 1
          /\ Report.summary.provinces = 2

\* metrics is absent, no object, or an empty object
LacksMetrics(e) ==
    \/ ~Has(e, "metrics")
    \/ ValueOf(e, "metrics").t # "dict"
    \/ Len(ValueOf(e, "metrics").d) = 0

(* C7: an object entry whose metrics is absent, no object or an empty object  *)
(* gets exactly one error at $.<adcode>.metrics and no issue at any           *)
(* $.<adcode>.metrics.<key>, and the report's ok is false.                    *)
C7_MetricsMustBeNonEmptyObject ==
    (Validated /\ isinstance_dict(provinces_file)) =>
        \A i \in ObjectEntries :
            LacksMetrics(EntryOf(i)) =>
                LET path == <<"$", AdcodeOf(i), "metrics">>
                IN  /\ Cardinality(ErrorsAt(path)) = 1
                    /\ IssuesUnder(path) = ErrorsAt(path)
                    /\ ~Report.ok

C7_Witness ==
    /\ Validated
    /\ isinstance_dict(provinces_file)
    /\ \E i \in ObjectEntries :
          /\ Has(EntryOf(i), "metrics")
          /\ ValueOf(EntryOf(i), "metrics") = JDict(<<>>)
          /\ \A f \in {"name_en", "name_cn", "region"} : Has(EntryOf(i), f)
          /\ Cardinality(IssuesUnder(<<"$", AdcodeOf(i)>>)) = 1
          /\ ~Report.ok

\* a dict without the keys label and unit
Unlabelled(m) ==
    IF m.t = "dict" THEN JDict(SelectSeq(m.d, LAMBDA kv : kv[1] \notin {"label", "unit"})) ELSE m

\* an entry with label and unit taken out of every metric
UnlabelledEntry(e) ==
    IF e.t = "dict"
    THEN JDict([j \in 1..Len(e.d) |->
                   IF e.d[j][1] = "metrics" /\ e.d[j][2].t = "dict"
                   THEN <<"metrics",
                          JDict([k \in 1..Len(e.d[j][2].d) |->
                                    <<e.d[j][2].d[k][1], Unlabelled(e.d[j][2].d[k][2])>>])>>
                   ELSE e.d[j]])
    ELSE e

UnlabelledProvinces ==
    JDict([i \in 1..Len(Provinces) |-> <<AdcodeOf(i), UnlabelledEntry(EntryOf(i))>>])

(* C8: for a metric that is an object in the non-empty metrics of an object   *)
(* entry: value absent gives exactly one error at $.<adcode>.metrics.<key>;   *)
(* a value that is no number, a boolean being no number, gives exactly one    *)
(* error at $.<adcode>.metrics.<key>.value; a non-boolean number gives no     *)
(* error for the metric.  A label or unit that is no string gives a warning   *)
(* and leaves ok as it is without them.                                       *)
C8_MetricValueMustBeNumber ==
    (Validated /\ isinstance_dict(provinces_file)) =>
        /\ \A i \in ObjectEntries :
              HasMetrics(EntryOf(i)) =>
                  \A j \in 1..Len(MetricsOf(EntryOf(i))) :
                      LET m == MetricsOf(EntryOf(i))[j][2]
                          path == <<"$", AdcodeOf(i), "metrics", MetricsOf(EntryOf(i))[j][1]>>
                      IN  m.t = "dict" =>
                            /\ ~Has(m, "value") =>
                                  /\ Cardinality(ErrorsAt(path)) = 1
                                  /\ ErrorsUnder(path) = ErrorsAt(path)
                            /\ (Has(m, "value") /\ ~Numeric(ValueOf(m, "value"))) =>
                                  /\ Cardinality(ErrorsAt(path \o <<"value">>)) = 1
                                  /\ ErrorsUnder(path) = ErrorsAt(path \o <<"value">>)
                            /\ (Has(m, "value") /\ Numeric(ValueOf(m, "value"))) =>
                                  ErrorsUnder(path) = {}
                            /\ \A f \in {"label", "unit"} :
                                  /\ ErrorsAt(path \o <<f>>) = {}
                                  /\ (Has(m, f) /\ ValueOf(m, f).t # "str")
                                        <=> Cardinality(IssuesAt(path \o <<f>>)) = 1
                                  /\ Cardinality(IssuesAt(path \o <<f>>)) <= 1
        /\ Report.ok = _validate_provinces_schema(UnlabelledProvinces).ok

C8_Witness ==
    /\ Validated
    /\ isinstance_dict(provinces_file)
    /\ \E i \in ObjectEntries :
          /\ HasMetrics(EntryOf(i))
          /\ \E j \in 1..Len(MetricsOf(EntryOf(i))) :
                LET m == MetricsOf(EntryOf(i))[j][2]
                IN  /\ m.t = "dict"
                    /\ Has(m, "value")
                    /\ ValueOf(m, "value").t = "bool"
                    /\ ErrorsAt(<<"$", AdcodeOf(i), "metrics", MetricsOf(EntryOf(i))[j][1],
                                  "value">>) # {}
          /\ \E j \in 1..Len(MetricsOf(EntryOf(i))) :
                LET m == MetricsOf(EntryOf(i))[j][2]
                IN  m.t = "dict" /\ Has(m, "label") /\ ValueOf(m, "label").t # "str"

\* field is present in entry e with a value that is no sequence
NotASequence(e, field) == Has(e, field) /\ ValueOf(e, field).t # "list"

\* what the elements of a fabs sequence get
FabElementsChecked(i) ==
    LET e == EntryOf(i)
    IN  (Has(e, "fabs") /\ ValueOf(e, "fabs").t = "list") =>
            \A j \in 1..Len(ValueOf(e, "fabs").l) :
                LET fab == ValueOf(e, "fabs").l[j]
                    path == <<"$", AdcodeOf(i), FabSegment(j - 1)>>
                IN  IF fab.t # "dict"
                    THEN /\ Cardinality(IssuesUnder(path)) = 1
                         /\ Cardinality(ErrorsAt(path)) = 1
                    ELSE /\ ErrorsUnder(path) = {}
                         /\ Cardinality(IssuesAt(path)) = (IF Has(fab, "name") THEN 0 ELSE 1)
                         /\ Cardinality(IssuesAt(path \o <<"capacity_kwpm">>))
                               = (IF /\ Has(fab, "capacity_kwpm")
                                     /\ ~Numeric(ValueOf(fab, "capacity_kwpm"))
                                  THEN 1 ELSE 0)
                         /\ IssuesUnder(path) = IssuesAt(path) \cup IssuesAt(path \o <<"capacity_kwpm">>)

(* C10, as stated: fabs or companies present with a value that is no sequence, *)
(* null included, gets an error at $.<adcode>.fabs or $.<adcode>.companies;    *)
(* an absent field gets no issue; the elements of a fabs sequence get one      *)
(* error each when no object and only warnings when an object.                 *)
C10_NullIsNoSequence ==
    (Validated /\ isinstance_dict(provinces_file)) =>
        \A i \in ObjectEntries :
            /\ \A f \in {"fabs", "companies"} :
                  /\ NotASequence(EntryOf(i), f) => ErrorsAt(<<"$", AdcodeOf(i), f>>) # {}
                  /\ ~Has(EntryOf(i), f) => IssuesAt(<<"$", AdcodeOf(i), f>>) = {}
            /\ FabElementsChecked(i)

(* C10, amended: fabs or companies present with a value that is neither null   *)
(* nor a sequence gets one error at $.<adcode>.fabs or $.<adcode>.companies;   *)
(* a field that is absent, null or a sequence gets no issue at that path; the  *)
(* elements of a fabs sequence get one error each when no object and only      *)
(* warnings when an object.                                                    *)
C10_OptionalSequences ==
    (Validated /\ isinstance_dict(provinces_file)) =>
        \A i \in ObjectEntries :
            /\ \A f \in {"fabs", "companies"} :
                  IF NotASequence(EntryOf(i), f) /\ ValueOf(EntryOf(i), f) # None
                  THEN /\ Cardinality(ErrorsAt(<<"$", AdcodeOf(i), f>>)) = 1
                       /\ IssuesUnder(<<"$", AdcodeOf(i), f>>) = ErrorsAt(<<"$", AdcodeOf(i), f>>)
                  ELSE IssuesAt(<<"$", AdcodeOf(i), f>>) = {}
            /\ FabElementsChecked(i)

C10_Witness ==
    /\ Validated
    /\ isinstance_dict(provinces_file)
    /\ \E i \in ObjectEntries :
          /\ Has(EntryOf(i), "fabs")
          /\ ValueOf(EntryOf(i), "fabs") = None
          /\ Has(EntryOf(i), "companies")
          /\ ValueOf(EntryOf(i), "companies") = JDict(<<>>)
          /\ Cardinality(ErrorsAt(<<"$", AdcodeOf(i), "companies">>)) = 1
          /\ IssuesAt(<<"$", AdcodeOf(i), "fabs">>) = {}

-----------------------------------------------------------------------------
(* Claims on the requests served one at a time *)

(* C4: each cache is populated exactly once: once a file has been read it is  *)
(* never read again, the validator runs at most once, and a cache that is set *)
(* keeps its value.                                                           *)
C4_PopulatedOnce ==
    [][/\ \A f \in FileNames : reads[f] >= 1 => reads'[f] = reads[f]
       /\ validator_runs >= 1 => validator_runs' = validator_runs
       /\ _provinces_cache # None => _provinces_cache' = _provinces_cache
       /\ _semi_companies_cache # None => _semi_companies_cache' = _semi_companies_cache
       /\ _ai_company_profiles_cache # None
             => _ai_company_profiles_cache' = _ai_company_profiles_cache
       /\ _schema_report_cache # None => _schema_report_cache' = _schema_report_cache]_vars

\* the values Python takes for false
Falsy(v) ==
    v \in {None, JBool(FALSE), JInt(0), JFloat(0), JStr(""), JList(<<>>), JDict(<<>>)}

Keys == {Provinces[i][1] : i \in 1..Len(Provinces)}
Stored(adcode) == Provinces[CHOOSE i \in 1..Len(Provinces) : Provinces[i][1] = adcode][2]

(* C5: on a dataset that is a mapping, get_province answers 404 with          *)
(* {"error": "Province not found"} exactly when adcode is no key of the       *)
(* dataset or the value under it is falsy, answers with the stored entry      *)
(* otherwise, and leaves the loaded dataset as it is.                         *)
C5_LookupOrNotFound ==
    (response.route = "/province/{adcode}" /\ isinstance_dict(provinces_file)) =>
        LET adcode == response.arg
            missing == adcode \notin Keys \/ Falsy(Stored(adcode))
        IN  /\ missing <=> (response.status = 404 /\ response.body = NotFound)
            /\ ~missing =>
                  /\ response.status = 200
                  /\ response.body.province = Stored(adcode)
                  /\ response.body.adcode = adcode
            /\ _provinces_cache = provinces_file

C5_Witness ==
    /\ response.route = "/province/{adcode}"
    /\ isinstance_dict(provinces_file)
    /\ response.arg \in Keys
    /\ Stored(response.arg) = JDict(<<>>)
    /\ response.status = 404

\* the revenue of a record, in tenths, where the claim defines it
RevenueOf(c) ==
    IF c.t # "dict" \/ ~Has(c, "revenue_b_cny") \/ Falsy(ValueOf(c, "revenue_b_cny")) THEN 0
    ELSE IF ValueOf(c, "revenue_b_cny").t = "int" THEN 10 * ValueOf(c, "revenue_b_cny").n
    ELSE ValueOf(c, "revenue_b_cny").x

RECURSIVE SumOver(_, _)
SumOver(l, S) ==
    IF S = {} THEN 0
    ELSE LET i == CHOOSE j \in S : TRUE IN RevenueOf(l[i]) + SumOver(l, S \ {i})

TotalRevenue(l) == SumOver(l, 1..Len(l))

\* every revenue of the object records is missing, falsy or a number
NumericRevenues(l) ==
    \A i \in 1..Len(l) :
        (l[i].t = "dict" /\ Has(l[i], "revenue_b_cny")) =>
            Falsy(ValueOf(l[i], "revenue_b_cny")) \/ Numeric(ValueOf(l[i], "revenue_b_cny"))

\* the sequences the loaders hand to the aggregator
SemiCompanies == IF semi_file.t = "list" THEN semi_file.l ELSE <<>>
AiCompanies ==
    IF ai_file.t = "dict" /\ Has(ai_file, "companies") /\ ValueOf(ai_file, "companies").t = "list"
    THEN ValueOf(ai_file, "companies").l
    ELSE <<>>

(* C6: with numeric revenues, the summary's counts are the lengths of the two *)
(* sequences and their sum, the revenues are the sums of revenue_b_cny over   *)
(* the object records (missing or falsy is 0, a non-object adds nothing), the *)
(* total is the sum of the two, two empty sequences give zeroes, and the      *)
(* sequences are returned and kept as loaded.                                 *)
C6_SummaryOfCompanies ==
    (/\ response.route = "/company-profiles"
     /\ NumericRevenues(SemiCompanies)
     /\ NumericRevenues(AiCompanies)) =>
        /\ response.status = 200
        /\ response.body.summary =
              [semi_count |-> Len(SemiCompanies),
               ai_count |-> Len(AiCompanies),
               total_count |-> Len(SemiCompanies) + Len(AiCompanies),
               semi_revenue_b_cny |-> TotalRevenue(SemiCompanies),
               ai_revenue_b_cny |-> TotalRevenue(AiCompanies),
               total_revenue_b_cny |-> TotalRevenue(SemiCompanies) + TotalRevenue(AiCompanies)]
        /\ (SemiCompanies = <<>> /\ AiCompanies = <<>>) =>
              \A k \in DOMAIN response.body.summary : response.body.summary[k] = 0
        /\ response.body.semi_companies = JList(SemiCompanies)
        /\ response.body.ai_companies = JList(AiCompanies)
        /\ _semi_companies_cache = JList(SemiCompanies)
        /\ _ai_company_profiles_cache = JList(AiCompanies)

C6_Witness ==
    /\ response.route = "/company-profiles"
    /\ SemiCompanies =
          <<JDict(<< <<"name", JStr("Naura")>>, <<"revenue_b_cny", JFloat(25)>> >>), JStr("SMIC")>>
    /\ AiCompanies =
          <<JDict(<< <<"name", JStr("Cambricon")>>, <<"revenue_b_cny", JFloat(15)>> >>)>>
    /\ response.body.summary =
          [semi_count |-> 2, ai_count |-> 1, total_count |-> 3, semi_revenue_b_cny |-> 25,
           ai_revenue_b_cny |-> 15, total_revenue_b_cny |-> 40]

-----------------------------------------------------------------------------
(* Claims on first calls made at the same time *)

\* what a function returns when it runs alone on the files
ExpectedOf(f) ==
    CASE f = "_load_provinces" -> provinces_file
      [] f = "_load_semi_companies" -> JList(SemiCompanies)
      [] f = "_load_ai_company_profiles" -> JList(AiCompanies)
      [] f = "_get_schema_report" -> _validate_provinces_schema(provinces_file)

Called(f) ==
    \E t \in Threads : op[t] = f \/ (f = "_load_provinces" /\ op[t] = "_get_schema_report")

(* C9: in every interleaving of first calls, every call returns the value of  *)
(* the file (or the report of it), a cache holds nothing or that value at     *)
(* every step, and once all calls are done the caches of the functions called *)
(* hold that value.                                                           *)
C9_ConcurrentFirstCalls ==
    /\ \A t \in Threads : pc[t] = "done" => ret[t] = ExpectedOf(op[t])
    /\ \A f \in Functions : CacheOf(f) = None \/ CacheOf(f) = ExpectedOf(f)
    /\ (\A t \in Threads : pc[t] = "done") =>
          \A f \in Functions : Called(f) => CacheOf(f) = ExpectedOf(f)

C9_Witness ==
    /\ \A t \in Threads : pc[t] = "done" /\ op[t] = "_load_semi_companies"
    /\ reads["semi_companies"] = NumThreads
    /\ semi_file.t # "list"
    /\ _semi_companies_cache = JList(<<>>)

=============================================================================
